---- MODULE Spec2Model ----
EXTENDS Integers, Sequences, FiniteSets, TLC

(***************************************************************************)
(* CNF/DNF calculator (index.js).                                          *)
(*                                                                         *)
(* A JavaScript string is a sequence of characters.  A character is a     *)
(* one-character TLA+ string; the three non-ASCII characters the program   *)
(* knows are written by their code point.                                  *)
(***************************************************************************)

NotSign == "U+00AC"
Wedge == "U+2227"
Vee == "U+2228"

UpperCase == {"A", "B", "C", "D", "E", "F", "G", "H", "I", "J", "K", "L", "M",
              "N", "O", "P", "Q", "R", "S", "T", "U", "V", "W", "X", "Y", "Z"}
LowerCase == {"a", "b", "c", "d", "e", "f", "g", "h", "i", "j", "k", "l", "m",
              "n", "o", "p", "q", "r", "s", "t", "u", "v", "w", "x", "y", "z"}
Digit == {"0", "1", "2", "3", "4", "5", "6", "7", "8", "9"}

\* The characters /[A-Za-z0-9_]/ accepts, in ascending UTF-16 code unit order.
CodeUnitOrder ==
    <<"0", "1", "2", "3", "4", "5", "6", "7", "8", "9",
      "A", "B", "C", "D", "E", "F", "G", "H", "I", "J", "K", "L", "M",
      "N", "O", "P", "Q", "R", "S", "T", "U", "V", "W", "X", "Y", "Z",
      "_",
      "a", "b", "c", "d", "e", "f", "g", "h", "i", "j", "k", "l", "m",
      "n", "o", "p", "q", "r", "s", "t", "u", "v", "w", "x", "y", "z">>

\* The code units /\s/ accepts: the ASCII white space, and those beyond ASCII,
\* which are named by their code point.
VerticalTab == "U+000B"
NoBreakSpace == "U+00A0"
EmSpace == "U+2003"
LineSeparator == "U+2028"
ByteOrderMark == "U+FEFF"

WhiteSpace ==
    {" ", "\t", "\n", "\r", "\f", VerticalTab,
     NoBreakSpace, "U+1680",
     "U+2000", "U+2001", "U+2002", EmSpace, "U+2004", "U+2005", "U+2006", "U+2007",
     "U+2008", "U+2009", "U+200A",
     LineSeparator, "U+2029", "U+202F", "U+205F", "U+3000", ByteOrderMark}

symbols ==
    [or      |-> <<" ", Vee, " ">>,
     and     |-> <<" ", Wedge, " ">>,
     implies |-> <<" ", "-", ">", " ">>,
     equiv   |-> <<" ", "<", "-", ">", " ">>,
     not     |-> <<NotSign>>]

\* input[i], for 0 <= i < input.length.
charAt(input, i) == input[i + 1]

\* input.slice(from, to): the end is clipped to the length of the string.
slice(input, from, to) ==
    SubSeq(input, from + 1, IF to < Len(input) THEN to ELSE Len(input))

\* What a function call leaves behind: a returned value or a thrown Error.
Return(v) == [threw |-> FALSE, value |-> v, message |-> <<>>]
Throw(m) == [threw |-> TRUE, value |-> <<>>, message |-> m]

(***************************************************************************)
(* The tokenizer.                                                          *)
(***************************************************************************)

isWhiteSpace(input, i) == charAt(input, i) \in WhiteSpace

isParenthesis(input, i) == charAt(input, i) = "(" \/ charAt(input, i) = ")"

\* isImpliedOperator looking at the first character only.
isImpliedOperatorFirstCharOnly(input, i) ==
    charAt(input, i) = "-" \/ charAt(input, i) = "="

isImpliedOperator(input, i) ==
    IF charAt(input, i) # "-" /\ charAt(input, i) # "="
    THEN FALSE
    ELSE LET check == slice(input, i, i + 2)
         IN  check = <<"-", ">">> \/ check = <<"=", ">">>

\* isIfAndOnlyIfOperator knowing the form <-> only.
isIfAndOnlyIfOperatorDashOnly(input, i) == slice(input, i, i + 3) = <<"<", "-", ">">>

isIfAndOnlyIfOperator(input, i) ==
    IF charAt(input, i) # "<"
    THEN FALSE
    ELSE LET check == slice(input, i, i + 3)
         IN  check = <<"<", "-", ">">> \/ check = <<"<", "=", ">">>

isNotOperator(input, i) ==
    charAt(input, i) = "~" \/ charAt(input, i) = "!" \/ charAt(input, i) = NotSign

isAndOperator(input, i) == charAt(input, i) = "&" \/ charAt(input, i) = Wedge

isOrOperator(input, i) == charAt(input, i) = "|" \/ charAt(input, i) = Vee

isStartOfVariable(input, i) == charAt(input, i) \in UpperCase \cup LowerCase

RECURSIVE getVarNameLoop(_, _, _)
getVarNameLoop(input, i, varName) ==
    IF i < Len(input) /\ charAt(input, i) \in UpperCase \cup LowerCase \cup Digit \cup {"_"}
    THEN getVarNameLoop(input, i + 1, Append(varName, charAt(input, i)))
    ELSE varName

getVarName(input, i) == getVarNameLoop(input, i, <<>>)

Token(t, v) == [type |-> t, value |-> v]

RECURSIVE tokenizeLoop(_, _, _)
tokenizeLoop(input, i, tokens) ==
    IF ~(i < Len(input)) THEN Return(tokens)
    ELSE IF isWhiteSpace(input, i) THEN tokenizeLoop(input, i + 1, tokens)
    ELSE IF isParenthesis(input, i)
         THEN tokenizeLoop(input, i + 1,
                           Append(tokens, Token("paren", <<charAt(input, i)>>)))
    ELSE IF isNotOperator(input, i) \/ isAndOperator(input, i) \/ isOrOperator(input, i)
         THEN tokenizeLoop(input, i + 1,
                           Append(tokens, Token("operator", <<charAt(input, i)>>)))
    ELSE IF isImpliedOperator(input, i)
         THEN tokenizeLoop(input, i + 2,
                           Append(tokens, Token("operator", <<"-", ">">>)))
    ELSE IF isIfAndOnlyIfOperator(input, i)
         THEN tokenizeLoop(input, i + 3,
                           Append(tokens, Token("operator", <<"<", "-", ">">>)))
    ELSE IF isStartOfVariable(input, i)
         THEN LET varName == getVarName(input, i)
              IN  tokenizeLoop(input, i + Len(varName),
                               Append(tokens, Token("variable", varName)))
    ELSE Throw(<<"Unknown token at position ", ToString(i), ": '",
                 charAt(input, i), "'">>)

\* tokenize stopping without an error at the first character that starts no
\* token, and handing over the tokens before it.
tokenizeKnownPrefix(input) ==
    LET known == {n \in 0..Len(input) : ~tokenizeLoop(SubSeq(input, 1, n), 0, <<>>).threw}
        longest == CHOOSE n \in known : \A m \in known : m <= n
    IN  tokenizeLoop(SubSeq(input, 1, longest), 0, <<>>)

tokenize(input) == tokenizeLoop(input, 0, <<>>)

(***************************************************************************)
(* The recursive descent parser.  A parse function takes the token array   *)
(* and the parser's position and leaves the node it built and the new      *)
(* position, or the Error it threw.                                        *)
(***************************************************************************)

Parsed(node, pos) == [threw |-> FALSE, node |-> node, pos |-> pos, message |-> <<>>]
ParseThrow(m) == [threw |-> TRUE, node |-> <<>>, pos |-> 0, message |-> m]

VarNode(name) == [type |-> "var", value |-> name]
NotNode(operand) == [type |-> "not", operand |-> operand]
BinaryNode(type, left, right) == [type |-> type, left |-> left, right |-> right]

\* Parser.isNext: peek() is undefined at the end of the tokens.
isNext(tokens, pos, t, val) ==
    /\ pos < Len(tokens)
    /\ tokens[pos + 1].type = t
    /\ tokens[pos + 1].value = val

\* The four binary levels are one pattern (a left operand of the next tighter
\* level, then, while the level's operator follows, a right operand of that
\* level, folded into the left), each with its own operator, operand parser
\* and node type.
BinaryParsers == {"parseIfAndOnlyIf", "parseImplies", "parseOr", "parseAnd"}

\* operandParser with conjunction and disjunction in each other's place.
operandParserOrTighter(fn) ==
    CASE fn = "parseIfAndOnlyIf" -> "parseImplies"
      [] fn = "parseImplies" -> "parseAnd"
      [] fn = "parseAnd" -> "parseOr"
      [] fn = "parseOr" -> "parseNot"

operandParser(fn) ==
    CASE fn = "parseIfAndOnlyIf" -> "parseImplies"
      [] fn = "parseImplies" -> "parseOr"
      [] fn = "parseOr" -> "parseAnd"
      [] fn = "parseAnd" -> "parseNot"

operatorValue(fn) ==
    CASE fn = "parseIfAndOnlyIf" -> <<"<", "-", ">">>
      [] fn = "parseImplies" -> <<"-", ">">>
      [] fn = "parseOr" -> <<"|">>
      [] fn = "parseAnd" -> <<"&">>

nodeType(fn) ==
    CASE fn = "parseIfAndOnlyIf" -> "equiv"
      [] fn = "parseImplies" -> "implies"
      [] fn = "parseOr" -> "or"
      [] fn = "parseAnd" -> "and"

\* The level a parenthesis re-enters the grammar at.
parenParserOr == "parseOr"
parenParser == "parseIfAndOnlyIf"

RECURSIVE parse(_, _, _), parseWhile(_, _, _, _)

\* parseWhile taking its right operand at its own level: the chain nests to
\* the right.
parseWhileOwnLevel(fn, tokens, left, pos) ==
    IF isNext(tokens, pos, "operator", operatorValue(fn))
    THEN LET right == parse(fn, tokens, pos + 1)
         IN  IF right.threw THEN right
             ELSE Parsed(BinaryNode(nodeType(fn), left, right.node), right.pos)
    ELSE Parsed(left, pos)

\* while (parser.isNext('operator', op)) { pop; right = operand(); left = node }
parseWhile(fn, tokens, left, pos) ==
    IF isNext(tokens, pos, "operator", operatorValue(fn))
    THEN LET right == parse(operandParser(fn), tokens, pos + 1)
         IN  IF right.threw THEN right
             ELSE parseWhile(fn, tokens,
                      BinaryNode(nodeType(fn), left, right.node), right.pos)
    ELSE Parsed(left, pos)

\* The parse function named fn, called at position pos.  parser.pop() in
\* parsePrimary hands out tokens[pos] and advances, also past the end.
parse(fn, tokens, pos) ==
    IF fn \in BinaryParsers
    THEN LET left == parse(operandParser(fn), tokens, pos)
         IN  IF left.threw THEN left
             ELSE parseWhile(fn, tokens, left.node, left.pos)
    ELSE IF fn = "parseNot"
    THEN IF isNext(tokens, pos, "operator", <<"~">>)
         THEN LET operand == parse("parseNot", tokens, pos + 1)
              IN  IF operand.threw THEN operand
                  ELSE Parsed(NotNode(operand.node), operand.pos)
         ELSE parse("parsePrimary", tokens, pos)
    ELSE IF ~(pos < Len(tokens)) THEN ParseThrow(<<"Unexpected end of input">>)
    ELSE LET token == tokens[pos + 1]
         IN  IF token.type = "variable" THEN Parsed(VarNode(token.value), pos + 1)
             ELSE IF token.type = "paren" /\ token.value = <<"(">>
             THEN LET expr == parse(parenParser, tokens, pos + 1)
                  IN  IF expr.threw THEN expr
                      ELSE IF isNext(tokens, expr.pos, "paren", <<")">>)
                      THEN Parsed(expr.node, expr.pos + 1)
                      ELSE ParseThrow(<<"Expected ')'">>)
             ELSE ParseThrow(<<"Unexpected token: ">> \o token.value)

parseIfAndOnlyIf(tokens, pos) == parse("parseIfAndOnlyIf", tokens, pos)
parseImplies(tokens, pos) == parse("parseImplies", tokens, pos)
parseOr(tokens, pos) == parse("parseOr", tokens, pos)
parseAnd(tokens, pos) == parse("parseAnd", tokens, pos)
parseNot(tokens, pos) == parse("parseNot", tokens, pos)
parsePrimary(tokens, pos) == parse("parsePrimary", tokens, pos)

\* parseExpression without the check for tokens left over.
parseExpressionNoLeftoverCheck(tokens) ==
    LET expr == parseIfAndOnlyIf(tokens, 0)
    IN  IF expr.threw THEN Throw(expr.message) ELSE Return(expr.node)

parseExpression(tokens) ==
    LET expr == parseIfAndOnlyIf(tokens, 0)
    IN  IF expr.threw THEN Throw(expr.message)
        ELSE IF expr.pos < Len(tokens)
        THEN Throw(<<"Unexpected token: ">> \o tokens[expr.pos + 1].value)
        ELSE Return(expr.node)

(***************************************************************************)
(* The evaluator.  A JavaScript value is "true", "false" or "undefined"    *)
(* (what a lookup of an absent property gives).                            *)
(***************************************************************************)

JSTrue == "true"
JSFalse == "false"
JSUndefined == "undefined"

\* Boolean(v), the truthiness `!`, `&&`, `||` and `if` go by: of the values an
\* evaluation meets, false and undefined are falsy, true and objects truthy.
ToBoolean(v) == v \notin {JSFalse, JSUndefined}

JSBool(b) == IF b THEN JSTrue ELSE JSFalse

\* The properties an object literal inherits from Object.prototype: a name
\* that is not an own property of the assignment is looked up there.
ObjectPrototype ==
    (<<"c", "o", "n", "s", "t", "r", "u", "c", "t", "o", "r">> :> "function Object") @@
    (<<"h", "a", "s", "O", "w", "n", "P", "r", "o", "p", "e", "r", "t", "y">> :> "function hasOwnProperty") @@
    (<<"i", "s", "P", "r", "o", "t", "o", "t", "y", "p", "e", "O", "f">> :> "function isPrototypeOf") @@
    (<<"p", "r", "o", "p", "e", "r", "t", "y", "I", "s", "E", "n", "u", "m", "e", "r", "a", "b", "l", "e">> :> "function propertyIsEnumerable") @@
    (<<"t", "o", "L", "o", "c", "a", "l", "e", "S", "t", "r", "i", "n", "g">> :> "function toLocaleString") @@
    (<<"t", "o", "S", "t", "r", "i", "n", "g">> :> "function toString") @@
    (<<"v", "a", "l", "u", "e", "O", "f">> :> "function valueOf") @@
    (<<"_", "_", "d", "e", "f", "i", "n", "e", "G", "e", "t", "t", "e", "r", "_", "_">> :> "function __defineGetter__") @@
    (<<"_", "_", "d", "e", "f", "i", "n", "e", "S", "e", "t", "t", "e", "r", "_", "_">> :> "function __defineSetter__") @@
    (<<"_", "_", "l", "o", "o", "k", "u", "p", "G", "e", "t", "t", "e", "r", "_", "_">> :> "function __lookupGetter__") @@
    (<<"_", "_", "l", "o", "o", "k", "u", "p", "S", "e", "t", "t", "e", "r", "_", "_">> :> "function __lookupSetter__") @@
    (<<"_", "_", "p", "r", "o", "t", "o", "_", "_">> :> "object Object.prototype")

\* object[name], as in vars[ast.value]
getProperty(object, name) ==
    IF name \in DOMAIN object THEN object[name]
    ELSE IF name \in DOMAIN ObjectPrototype THEN ObjectPrototype[name]
    ELSE JSUndefined

\* evaluateAST with the implication read the wrong way round: left or not right.
RECURSIVE evaluateASTConverse(_, _)
evaluateASTConverse(ast, assignment) ==
    CASE ast.type = "var" -> Return(getProperty(assignment, ast.value))
      [] ast.type = "not" ->
            Return(JSBool(~ToBoolean(evaluateASTConverse(ast.operand, assignment).value)))
      [] ast.type = "and" ->
            Return(JSBool(ToBoolean(evaluateASTConverse(ast.left, assignment).value)
                          /\ ToBoolean(evaluateASTConverse(ast.right, assignment).value)))
      [] ast.type = "or" ->
            Return(JSBool(ToBoolean(evaluateASTConverse(ast.left, assignment).value)
                          \/ ToBoolean(evaluateASTConverse(ast.right, assignment).value)))
      [] ast.type = "implies" ->
            Return(JSBool(ToBoolean(evaluateASTConverse(ast.left, assignment).value)
                          \/ ~ToBoolean(evaluateASTConverse(ast.right, assignment).value)))
      [] ast.type = "equiv" ->
            Return(JSBool(evaluateASTConverse(ast.left, assignment).value
                          = evaluateASTConverse(ast.right, assignment).value))
      [] OTHER -> Throw(<<"Unknown AST node type: ", ast.type>>)

\* The value the call returns, or the Error it throws; an Error thrown by the
\* evaluation of an operand goes up through the calls above it.
RECURSIVE evaluateAST(_, _)
evaluateAST(ast, assignment) ==
    CASE ast.type = "var" -> Return(getProperty(assignment, ast.value))
      [] ast.type = "not" ->
            LET operand == evaluateAST(ast.operand, assignment)
            IN  IF operand.threw THEN operand
                ELSE Return(JSBool(~ToBoolean(operand.value)))
      [] ast.type = "and" ->
            LET left == evaluateAST(ast.left, assignment)
            IN  IF left.threw THEN left
                ELSE IF ToBoolean(left.value) THEN evaluateAST(ast.right, assignment)
                ELSE left
      [] ast.type = "or" ->
            LET left == evaluateAST(ast.left, assignment)
            IN  IF left.threw THEN left
                ELSE IF ToBoolean(left.value) THEN left
                ELSE evaluateAST(ast.right, assignment)
      [] ast.type = "implies" ->
            LET left == evaluateAST(ast.left, assignment)
            IN  IF left.threw THEN left
                ELSE IF ~ToBoolean(left.value) THEN Return(JSTrue)
                ELSE evaluateAST(ast.right, assignment)
      [] ast.type = "equiv" ->
            LET left == evaluateAST(ast.left, assignment)
                right == evaluateAST(ast.right, assignment)
            IN  IF left.threw THEN left
                ELSE IF right.threw THEN right
                ELSE Return(JSBool(left.value = right.value))
      [] OTHER -> Throw(<<"Unknown AST node type: ", ast.type>>)

(***************************************************************************)
(* The variable collector.  A Set keeps its members in insertion order;    *)
(* Array.prototype.sort() orders strings by their UTF-16 code units.       *)
(***************************************************************************)

setAdd(members, v) ==
    IF \E k \in 1..Len(members) : members[k] = v THEN members ELSE Append(members, v)

RECURSIVE traverse(_, _)
traverse(node, members) ==
    CASE node.type = "var" -> setAdd(members, node.value)
      [] node.type = "not" -> traverse(node.operand, members)
      [] node.type \in {"and", "or", "implies", "equiv"} ->
            traverse(node.right, traverse(node.left, members))
      [] OTHER -> members

codeUnit(c) == CHOOSE k \in 1..Len(CodeUnitOrder) : CodeUnitOrder[k] = c

\* a < b as strings: at the first difference, or a is a proper prefix of b.
RECURSIVE stringLess(_, _)
stringLess(a, b) ==
    IF b = <<>> THEN FALSE
    ELSE IF a = <<>> THEN TRUE
    ELSE IF Head(a) = Head(b) THEN stringLess(Tail(a), Tail(b))
    ELSE codeUnit(Head(a)) < codeUnit(Head(b))

RECURSIVE sortInsert(_, _)
sortInsert(sorted, v) ==
    IF sorted = <<>> THEN <<v>>
    ELSE IF stringLess(v, Head(sorted)) THEN <<v>> \o sorted
    ELSE <<Head(sorted)>> \o sortInsert(Tail(sorted), v)

\* sort leaving the array in the order of insertion.
sortKeepsOrder(array) == array

RECURSIVE sort(_)
sort(array) ==
    IF array = <<>> THEN <<>>
    ELSE sortInsert(sort(SubSeq(array, 1, Len(array) - 1)), array[Len(array)])

getVariables(ast) == sort(traverse(ast, <<>>))

(***************************************************************************)
(* formatInput: the text of the last header cell.                          *)
(***************************************************************************)

RECURSIVE removeWhiteSpace(_)
removeWhiteSpace(text) ==
    IF text = <<>> THEN <<>>
    ELSE IF Head(text) \in WhiteSpace THEN removeWhiteSpace(Tail(text))
    ELSE <<Head(text)>> \o removeWhiteSpace(Tail(text))

\* text.replace(/pattern/g, replacement) for a literal pattern; notAfter is the
\* character a negative lookbehind forbids before a match ("" for none).
RECURSIVE replaceLoop(_, _, _, _, _)
replaceLoop(text, i, pattern, replacement, notAfter) ==
    IF ~(i < Len(text)) THEN <<>>
    ELSE IF /\ slice(text, i, i + Len(pattern)) = pattern
            /\ ~(i > 0 /\ charAt(text, i - 1) = notAfter)
         THEN replacement \o replaceLoop(text, i + Len(pattern), pattern, replacement, notAfter)
         ELSE <<charAt(text, i)>> \o replaceLoop(text, i + 1, pattern, replacement, notAfter)

replaceAll(text, pattern, replacement, notAfter) ==
    replaceLoop(text, 0, pattern, replacement, notAfter)

formatInput(input) ==
    LET s1 == removeWhiteSpace(input)
        s2 == replaceAll(s1, <<"|">>, symbols.or, "")
        s3 == replaceAll(s2, <<"&">>, symbols.and, "")
        s4 == replaceAll(s3, <<"<", "-", ">">>, symbols.equiv, "")
        s5 == replaceAll(s4, <<"-", ">">>, symbols.implies, "<")
    IN  replaceAll(s5, <<"~">>, symbols.not, "")

(***************************************************************************)
(* The body of generateTableAndNF.  The markup of the table is kept as     *)
(* its cells: the header cells and, per body row, the cells of the row.    *)
(***************************************************************************)

\* The Numbers of the row loop are IEEE 754 doubles.  One is kept here as
\* Infinity, or as an integer by its sign and the binary digits of its
\* magnitude, the least significant digit first and the last digit 1 (zero
\* has no digit), so that no width of the model's integers cuts it off.
Infinity == [infinite |-> TRUE, negative |-> FALSE, bits |-> <<>>]
Integer(negative, bits) == [infinite |-> FALSE, negative |-> negative, bits |-> bits]
Zero == Integer(FALSE, <<>>)

\* Math.pow(2, n) for an integer n >= 0: exact up to 2^1023, Infinity from
\* 2^1024 on.
powerOfTwo(n) ==
    IF n > 1023 THEN Infinity
    ELSE Integer(FALSE, [k \in 1..(n + 1) |-> IF k = n + 1 THEN 1 ELSE 0])

\* The digits of a magnitude plus one, and of a magnitude above zero minus one.
RECURSIVE increment(_)
increment(bits) ==
    IF bits = <<>> THEN <<1>>
    ELSE IF Head(bits) = 0 THEN <<1>> \o Tail(bits)
    ELSE <<0>> \o increment(Tail(bits))

RECURSIVE decrement(_)
decrement(bits) ==
    IF Head(bits) = 1
    THEN IF Tail(bits) = <<>> THEN <<>> ELSE <<0>> \o Tail(bits)
    ELSE <<1>> \o decrement(Tail(bits))

\* The double nearest to an exact magnitude: 53 significant digits are kept,
\* what is cut off rounds to the nearest, a tie to the even significand.
\* Every integer up to 2^53 is a double; 2^54 - 1 becomes 2^54.
roundToDouble(bits) ==
    IF Len(bits) <= 53 THEN bits
    ELSE LET cut == Len(bits) - 53
             kept == SubSeq(bits, cut + 1, Len(bits))
             half == bits[cut] = 1
             more == \E k \in 1..(cut - 1) : bits[k] = 1
             up == half /\ (more \/ kept[1] = 1)
         IN  [k \in 1..cut |-> 0] \o (IF up THEN increment(kept) ELSE kept)

\* numRows - 1 and i--, as the engine computes them.  Infinity stays
\* Infinity, and from 54 variables on the counter never moves.
minusOne(x) ==
    IF x.infinite THEN x
    ELSE IF x.negative THEN Integer(TRUE, roundToDouble(increment(x.bits)))
    ELSE IF x.bits = <<>> THEN Integer(TRUE, <<1>>)
    ELSE Integer(FALSE, roundToDouble(decrement(x.bits)))

\* i >= 0
notNegative(x) == ~x.negative

\* ToInt32: the number modulo 2^32 as 32 binary digits in two's complement,
\* the least significant first; Infinity gives 0.
ToInt32(x) ==
    LET low == [b \in 1..32 |-> IF b <= Len(x.bits) THEN x.bits[b] ELSE 0]
        inverted == [b \in 1..32 |-> 1 - low[b]]
    IN  IF x.infinite THEN [b \in 1..32 |-> 0]
        ELSE IF x.negative THEN SubSeq(increment(inverted), 1, 32)
        ELSE low

\* i >> k: on 32 bits, the sign digit filling up, the shift count taken
\* modulo 32.
shiftRight(i, k) ==
    LET word == ToInt32(i)
        count == k % 32
    IN  [b \in 1..32 |-> IF b + count <= 32 THEN word[b + count] ELSE word[32]]

\* x & 1
bitAnd1(x) == x[1]

\* The inner loop: assignment[variables[j]] = Boolean((i >> (n - j - 1)) & 1).
RECURSIVE assignmentLoop(_, _, _, _)
assignmentLoop(variables, i, j, assignment) ==
    IF j < Len(variables)
    THEN assignmentLoop(variables, i, j + 1,
             (variables[j + 1] :>
                 JSBool(bitAnd1(shiftRight(i, Len(variables) - j - 1)) # 0))
             @@ assignment)
    ELSE assignment

rowAssignment(variables, i) == assignmentLoop(variables, i, 0, <<>>)

\* array.join(separator)
RECURSIVE join(_, _)
join(array, separator) ==
    IF array = <<>> THEN <<>>
    ELSE IF Len(array) = 1 THEN array[1]
    ELSE array[1] \o separator \o join(Tail(array), separator)

tableHead(variables, input) == Append(variables, formatInput(input))

tableRow(variables, assignment, result) ==
    Append([k \in 1..Len(variables) |->
               IF ToBoolean(assignment[variables[k]]) THEN "T" ELSE "F"],
           IF ToBoolean(result) THEN "T" ELSE "F")

\* dnfClause with the negation on the true variables, as a maxterm has it.
dnfClauseNegatesTrue(variables, assignment) ==
    LET clause == join([k \in 1..Len(variables) |->
                          IF ToBoolean(assignment[variables[k]])
                          THEN symbols.not \o variables[k]
                          ELSE variables[k]],
                       symbols.and)
    IN  IF Len(variables) > 1 THEN <<"(">> \o clause \o <<")">> ELSE clause

\* dnfClause with the parentheses around every clause, a lone literal included.
dnfClauseAlwaysWrapped(variables, assignment) ==
    LET clause == join([k \in 1..Len(variables) |->
                          IF ToBoolean(assignment[variables[k]]) THEN variables[k]
                          ELSE symbols.not \o variables[k]],
                       symbols.and)
    IN  <<"(">> \o clause \o <<")">>

dnfClause(variables, assignment) ==
    LET clause == join([k \in 1..Len(variables) |->
                          IF ToBoolean(assignment[variables[k]]) THEN variables[k]
                          ELSE symbols.not \o variables[k]],
                       symbols.and)
    IN  IF Len(variables) > 1 THEN <<"(">> \o clause \o <<")">> ELSE clause

\* cnfClause with the negation on the false variables, as a minterm has it.
cnfClauseNegatesFalse(variables, assignment) ==
    LET clause == join([k \in 1..Len(variables) |->
                          IF ToBoolean(assignment[variables[k]]) THEN variables[k]
                          ELSE symbols.not \o variables[k]],
                       symbols.or)
    IN  IF Len(variables) > 1 THEN <<"(">> \o clause \o <<")">> ELSE clause

cnfClause(variables, assignment) ==
    LET clause == join([k \in 1..Len(variables) |->
                          IF ToBoolean(assignment[variables[k]])
                          THEN symbols.not \o variables[k]
                          ELSE variables[k]],
                       symbols.or)
    IN  IF Len(variables) > 1 THEN <<"(">> \o clause \o <<")">> ELSE clause

\* What the loop carries from one row to the next.
Locals(tbody, dnfs, cnfs) == [tbody |-> tbody, dnfClauses |-> dnfs, cnfClauses |-> cnfs]

\* loopBody without the else: a false row adds to both clause lists.
loopBodyNoElse(ast, variables, i, locals) ==
    LET assignment == rowAssignment(variables, i)
        result == evaluateAST(ast, assignment).value
        tbody == Append(locals.tbody, tableRow(variables, assignment, result))
    IN  Return(Locals(tbody,
                      Append(locals.dnfClauses, dnfClause(variables, assignment)),
                      IF ToBoolean(result) THEN locals.cnfClauses
                      ELSE Append(locals.cnfClauses, cnfClause(variables, assignment))))

\* One pass of `for (let i = numRows - 1; i >= 0; i--)`: the locals after it,
\* or the Error evaluateAST threw.
loopBody(ast, variables, i, locals) ==
    LET assignment == rowAssignment(variables, i)
        evaluated == evaluateAST(ast, assignment)
        result == evaluated.value
        tbody == Append(locals.tbody, tableRow(variables, assignment, result))
    IN  IF evaluated.threw THEN Throw(evaluated.message)
        ELSE IF ToBoolean(result)
        THEN Return(Locals(tbody,
                           Append(locals.dnfClauses, dnfClause(variables, assignment)),
                           locals.cnfClauses))
        ELSE Return(Locals(tbody,
                           locals.dnfClauses,
                           Append(locals.cnfClauses, cnfClause(variables, assignment))))

FalseText == <<"F", "a", "l", "s", "e">>
TrueText == <<"T", "r", "u", "e">>

\* cnfOf taking a lone clause for no clause.
cnfOfOffByOne(clauses) ==
    IF Len(clauses) > 1 THEN join(clauses, symbols.and) ELSE TrueText

\* dnfOf giving the sentinel whatever the clauses.
dnfOfAlwaysSentinel(clauses) == FalseText

dnfOf(clauses) == IF Len(clauses) > 0 THEN join(clauses, symbols.or) ELSE FalseText
cnfOf(clauses) == IF Len(clauses) > 0 THEN join(clauses, symbols.and) ELSE TrueText

\* The innerHTML of the result element.
EmptyHTML ==
    [kind |-> "empty", thead |-> <<>>, tbody |-> <<>>, dnf |-> <<>>, cnf |-> <<>>,
     message |-> <<>>]
resultHTML(thead, tbody, dnf, cnf) ==
    [kind |-> "result", thead |-> thead, tbody |-> tbody, dnf |-> dnf, cnf |-> cnf,
     message |-> <<>>]
errorHTML(message) ==
    [kind |-> "error", thead |-> <<>>, tbody |-> <<>>, dnf |-> <<>>, cnf |-> <<>>,
     message |-> message]

\* The row loop from i down.  From 54 variables on minusOne(i) = i and the
\* loop has no last pass: the run ends when the engine gives up.
RECURSIVE rowLoop(_, _, _, _)
rowLoop(ast, variables, i, locals) ==
    IF notNegative(i)
    THEN LET pass == loopBody(ast, variables, i, locals)
         IN  IF pass.threw THEN pass
             ELSE rowLoop(ast, variables, minusOne(i), pass.value)
    ELSE Return(locals)

\* The handler from its input to what it leaves in the result element.
generateTableAndNF(input) ==
    LET tokenized == tokenize(input)
        parsed == parseExpression(tokenized.value)
        variables == getVariables(parsed.value)
        numRows == powerOfTwo(Len(variables))
        rows == rowLoop(parsed.value, variables, minusOne(numRows), Locals(<<>>, <<>>, <<>>))
    IN  IF tokenized.threw THEN errorHTML(tokenized.message)
        ELSE IF parsed.threw THEN errorHTML(parsed.message)
        ELSE IF rows.threw THEN errorHTML(rows.message)
        ELSE resultHTML(tableHead(variables, input), rows.value.tbody,
                        dnfOf(rows.value.dnfClauses), cnfOf(rows.value.cnfClauses))

(***************************************************************************)
(* The inputs the expression field is given.                               *)
(***************************************************************************)

\* Longest raw input, counted in lexemes.
MaxLen == 3

\* Longest chain of one operator, counted in operands.
MaxChain == 3

Arrow == <<"-", ">">>
DoubleArrow == <<"<", "-", ">">>

Lexemes ==
    {<<"A">>, <<"B">>, <<"~">>, <<"!">>, <<NotSign>>, <<"&">>, <<Wedge>>, <<"|">>,
     <<Vee>>, Arrow, DoubleArrow, <<"(">>, <<")">>, <<" ">>, <<"$">>}

RECURSIVE LexemeStrings(_)
LexemeStrings(n) ==
    IF n = 0 THEN {<<>>}
    ELSE LET shorter == LexemeStrings(n - 1)
         IN  shorter \cup {s \o l : s \in shorter, l \in Lexemes}

RawInputs == LexemeStrings(MaxLen)

\* Inputs spelled character by character, so that '-', '=', '<' and '>' also
\* stand alone, and a digit stands where a token has to start.
MaxLexLen == 4

LexChars == {"<", "-", "=", ">", "A", "1", " "}

RECURSIVE CharStrings(_)
CharStrings(n) ==
    IF n = 0 THEN {<<>>}
    ELSE LET shorter == CharStrings(n - 1)
         IN  shorter \cup {Append(s, c) : s \in shorter, c \in LexChars}

LexInputs == CharStrings(MaxLexLen)

VarNames == {<<"A">>, <<"B">>, <<"C">>}
BinaryTypes == {"and", "or", "implies", "equiv"}

OperatorText(type) ==
    CASE type = "and" -> <<"&">>
      [] type = "or" -> <<"|">>
      [] type = "implies" -> Arrow
      [] type = "equiv" -> DoubleArrow

Formulas0 == {VarNode(v) : v \in VarNames}
Formulas1 ==
    Formulas0 \cup {NotNode(f) : f \in Formulas0}
              \cup {BinaryNode(t, l, r) : t \in BinaryTypes, l \in Formulas0, r \in Formulas0}
Formulas2 ==
    Formulas1 \cup {NotNode(f) : f \in Formulas1}
              \cup {BinaryNode(t, l, r) : t \in BinaryTypes, l \in Formulas1, r \in Formulas1}

\* A formula written out, every binary operand in parentheses.
RECURSIVE Unparse(_)
Operand(f) ==
    IF f.type \in BinaryTypes THEN <<"(">> \o Unparse(f) \o <<")">> ELSE Unparse(f)
Unparse(f) ==
    CASE f.type = "var" -> f.value
      [] f.type = "not" -> <<"~">> \o Operand(f.operand)
      [] f.type \in BinaryTypes ->
            Operand(f.left) \o OperatorText(f.type) \o Operand(f.right)

FormulaInputs == {Unparse(f) : f \in Formulas2}

\* x op1 y op2 z and ~x op y, without parentheses.
PrecText(t1, t2) == <<"A">> \o OperatorText(t1) \o <<"B">> \o OperatorText(t2) \o <<"C">>
NotText(t) == <<"~", "A">> \o OperatorText(t) \o <<"B">>
PrecInputs ==
    {PrecText(t1, t2) : t1 \in BinaryTypes, t2 \in BinaryTypes}
        \cup {NotText(t) : t \in BinaryTypes}

\* x1 op x2 op ... op xk, the operands named A, B, C, ... in turn.
ChainName(k) == <<CodeUnitOrder[10 + k]>>
RECURSIVE ChainText(_, _)
ChainText(t, k) ==
    IF k = 1 THEN ChainName(1)
    ELSE ChainText(t, k - 1) \o OperatorText(t) \o ChainName(k)
RECURSIVE NotChainText(_)
NotChainText(k) == IF k = 0 THEN <<"A">> ELSE <<"~">> \o NotChainText(k - 1)
ChainInputs ==
    {ChainText(t, k) : t \in BinaryTypes, k \in 2..MaxChain}
        \cup {NotChainText(k) : k \in 1..MaxChain}

\* (x op1 y) op2 z and x op1 (y op2 z).
LeftParenText(t1, t2) ==
    <<"(", "A">> \o OperatorText(t1) \o <<"B", ")">> \o OperatorText(t2) \o <<"C">>
RightParenText(t1, t2) ==
    <<"A">> \o OperatorText(t1) \o <<"(", "B">> \o OperatorText(t2) \o <<"C", ")">>
ParenInputs ==
    {LeftParenText(t1, t2) : t1 \in BinaryTypes, t2 \in BinaryTypes}
        \cup {RightParenText(t1, t2) : t1 \in BinaryTypes, t2 \in BinaryTypes}
        \cup {<<"(", "A", ")">>, <<"(", "(", "A", ")", ")">>,
              <<"(", "(", "A", "|", "B", ")", ")", "&", "C">>}

\* The inputs the documents work through, and names that read like the sentinels.
Samples ==
    {<<"A", " ", "-", ">", " ", "B">>,
     <<"A", " ", "&", " ", "B">>,
     <<"(", "A", " ", "&", " ", "B", ")", " ", "-", ">", " ", "C">>,
     <<"A", " ", "-", ">", " ", "(", "B", " ", "&", " ", "C", ")">>,
     <<"~", "~", "A">>,
     <<"A", " ", "|", " ", "B", " ", "&", " ", "C">>,
     <<"(", "A", " ", "|", " ", "B", ")", " ", "&", " ", "C">>,
     <<"A", " ", "&">>,
     <<"p", "1", "=", ">", "q", "_", "2", "<", "=", ">", "p">>,
     <<"!", "A", " ", Vee, " ", "A", " ", Wedge, " ", NotSign, "B">>,
     FalseText, TrueText,
     <<"A", "&", "~", "A", "&", "B", "&", "C">>,
     <<"A", "|", "~", "A", "|", "B", "|", "C">>,
     <<"A", " ", "&", " ", "&", " ", "$">>,
     <<"A", VerticalTab, "-", ">", VerticalTab, "B">>,
     <<ByteOrderMark, "A">>,
     <<"A", EmSpace, "|", EmSpace, "~", "A">>,
     <<"A", NoBreakSpace, "&", NoBreakSpace, "B", LineSeparator>>,
     <<"A", "\t", "B", "\n">>}

Inputs == RawInputs \cup FormulaInputs \cup PrecInputs \cup ChainInputs
              \cup ParenInputs \cup Samples \cup LexInputs

(***************************************************************************)
(* The page: the expression field, the result element, and the handler     *)
(* generateTableAndNF on its way through one run.                          *)
(***************************************************************************)

VARIABLES expr, result, pc, tokens, ast, variables, numRows, i, thead, locals,
          call, returned, selectionStart, selectionEnd

vars == <<expr, result, pc, tokens, ast, variables, numRows, i, thead, locals,
          call, returned, selectionStart, selectionEnd>>

\* A call of one function on its own: the function, its arguments, and what
\* the call left behind.
Call(fn, node, assignment) == [fn |-> fn, ast |-> node, assignment |-> assignment]
NoCall == Call("none", <<>>, <<>>)

NoLocals == Locals(<<>>, <<>>, <<>>)

Init ==
    /\ expr \in Inputs
    /\ result = EmptyHTML
    /\ pc = "idle"
    /\ tokens = <<>>
    /\ ast = <<>>
    /\ variables = <<>>
    /\ numRows = Zero
    /\ i = Zero
    /\ thead = <<>>
    /\ locals = NoLocals
    /\ call = NoCall
    /\ returned = Return(<<>>)
    /\ selectionStart = Len(expr)
    /\ selectionEnd = Len(expr)

\* A catch block that adds the message to what the result element holds.
CatchKeepsResult(message) ==
    /\ result' = [result EXCEPT !.kind = "error", !.message = message]
    /\ pc' = "done"

\* The catch block: the message replaces whatever the result element held.
Catch(message) ==
    /\ result' = errorHTML(message)
    /\ pc' = "done"

\* A click on Generate (or Enter): the input is read and tokenized.
Tokenize ==
    /\ pc = "idle"
    /\ LET tokenized == tokenize(expr)
       IN  IF tokenized.threw
           THEN /\ Catch(tokenized.message)
                /\ UNCHANGED tokens
           ELSE /\ tokens' = tokenized.value
                /\ pc' = "tokenized"
                /\ UNCHANGED result
    /\ UNCHANGED <<expr, ast, variables, numRows, i, thead, locals>>
    /\ UNCHANGED <<call, returned, selectionStart, selectionEnd>>

\* The tokens are parsed, the variables collected, the header row built and
\* the row loop set up.
Parse ==
    /\ pc = "tokenized"
    /\ LET parsed == parseExpression(tokens)
       IN  IF parsed.threw
           THEN /\ Catch(parsed.message)
                /\ UNCHANGED <<ast, variables, numRows, i, thead, locals>>
           ELSE /\ ast' = parsed.value
                /\ variables' = getVariables(parsed.value)
                /\ thead' = tableHead(getVariables(parsed.value), expr)
                /\ numRows' = powerOfTwo(Len(getVariables(parsed.value)))
                /\ i' = minusOne(powerOfTwo(Len(getVariables(parsed.value))))
                /\ locals' = NoLocals
                /\ pc' = "loop"
                /\ UNCHANGED result
    /\ UNCHANGED <<expr, tokens>>
    /\ UNCHANGED <<call, returned, selectionStart, selectionEnd>>

\* The most rows the model lets the loop build.
MaxRows == 16

\* One row of the table, and its clause.
Row ==
    /\ pc = "loop"
    /\ notNegative(i)
    /\ Len(locals.tbody) < MaxRows
    /\ LET pass == loopBody(ast, variables, i, locals)
       IN  IF pass.threw
           THEN /\ Catch(pass.message)
                /\ UNCHANGED <<locals, i>>
           ELSE /\ locals' = pass.value
                /\ i' = minusOne(i)
                /\ UNCHANGED <<result, pc>>
    /\ UNCHANGED <<expr, tokens, ast, variables, numRows, thead>>
    /\ UNCHANGED <<call, returned, selectionStart, selectionEnd>>

\* The loop is over: the normal forms are joined and the result element set.
Render ==
    /\ pc = "loop"
    /\ ~notNegative(i)
    /\ result' = resultHTML(thead, locals.tbody,
                            dnfOf(locals.dnfClauses), cnfOf(locals.cnfClauses))
    /\ pc' = "done"
    /\ UNCHANGED <<expr, tokens, ast, variables, numRows, i, thead, locals>>
    /\ UNCHANGED <<call, returned, selectionStart, selectionEnd>>

Next == Tokenize \/ Parse \/ Row \/ Render

Spec == Init /\ [][Next]_vars

\* Every run leaves what the handler, taken as one function of its input, leaves.
RunIsHandler == pc = "done" => result = generateTableAndNF(expr)

(***************************************************************************)
(* The page over several runs: when the handler has returned, the user     *)
(* clicks Generate again, on the field as it is or after putting another   *)
(* expression into it.  The result element keeps what the last run put     *)
(* there; the handler's locals end with the call.                          *)
(***************************************************************************)

PageInputs ==
    {<<"A">>,
     <<"~", "A">>,
     <<"A", " ", "&", " ", "B">>,
     <<"B", "-", ">", "A">>,
     <<"A", "|", "~", "A">>,
     <<"A", "&", "~", "A">>,
     <<"A", "<", "=", ">", "B", "|", "C">>,
     <<>>,
     <<"A", " ", "&">>,
     <<"(", "A">>,
     <<"A", " ", "$">>,
     <<"!", "A">>}

PageInit ==
    /\ expr \in PageInputs
    /\ result = EmptyHTML
    /\ pc = "idle"
    /\ tokens = <<>>
    /\ ast = <<>>
    /\ variables = <<>>
    /\ numRows = Zero
    /\ i = Zero
    /\ thead = <<>>
    /\ locals = NoLocals
    /\ call = NoCall
    /\ returned = Return(<<>>)
    /\ selectionStart = Len(expr)
    /\ selectionEnd = Len(expr)

\* No handler is running: the page waits for the next event.
Waiting == pc \in {"idle", "done"}

\* The locals of the last run are gone.
ForgetRun ==
    /\ pc' = "idle"
    /\ tokens' = <<>>
    /\ ast' = <<>>
    /\ variables' = <<>>
    /\ numRows' = Zero
    /\ i' = Zero
    /\ thead' = <<>>
    /\ locals' = NoLocals

\* The user gives the field its next value; the caret ends up behind it.
NextInput ==
    /\ Waiting
    /\ expr' \in PageInputs
    /\ selectionStart' = Len(expr')
    /\ selectionEnd' = Len(expr')
    /\ ForgetRun
    /\ UNCHANGED <<result, call, returned>>

\* The user moves the caret or selects a stretch of the field.
Select ==
    /\ Waiting
    /\ selectionStart' \in 0..Len(expr)
    /\ selectionEnd' \in selectionStart'..Len(expr)
    /\ UNCHANGED <<expr, result, pc, tokens, ast, variables, numRows, i, thead, locals>>
    /\ UNCHANGED <<call, returned>>

\* The longest field the model lets the "(" key make.
MaxFieldLen == 3

\* The field after the "(" key with the selection from start to end.
autoClose(value, start, end) ==
    slice(value, 0, start) \o <<"(">> \o slice(value, start, end) \o <<")">>
        \o slice(value, end, Len(value))

\* The keydown listener of the field on "(": the selection is put in
\* parentheses and moved one to the right; the result element is not touched.
KeydownParen ==
    /\ Waiting
    /\ Len(expr) + 2 <= MaxFieldLen
    /\ expr' = autoClose(expr, selectionStart, selectionEnd)
    /\ selectionStart' = selectionStart + 1
    /\ selectionEnd' = selectionEnd + 1
    /\ ForgetRun
    /\ UNCHANGED <<result, call, returned>>

\* A click on Generate (or Enter) with the field as the last run read it: the
\* handler runs again, with fresh locals, and the input is read and tokenized.
GenerateAgain ==
    /\ pc = "done"
    /\ LET tokenized == tokenize(expr)
       IN  IF tokenized.threw
           THEN /\ Catch(tokenized.message)
                /\ tokens' = <<>>
           ELSE /\ tokens' = tokenized.value
                /\ pc' = "tokenized"
                /\ UNCHANGED result
    /\ ast' = <<>>
    /\ variables' = <<>>
    /\ numRows' = Zero
    /\ i' = Zero
    /\ thead' = <<>>
    /\ locals' = NoLocals
    /\ UNCHANGED <<expr, call, returned, selectionStart, selectionEnd>>

PageNext ==
    Tokenize \/ Parse \/ Row \/ Render \/ NextInput \/ Select \/ KeydownParen
        \/ GenerateAgain

PageSpec == PageInit /\ [][PageNext]_vars

(***************************************************************************)
(* The row loop on formulas of many variables, for counts at and beyond    *)
(* the 32 bits of the shift and the 53 bits of the loop counter.  A run    *)
(* starts where the handler enters the loop, with what tokenize,           *)
(* parseExpression, getVariables and the header have left for the          *)
(* conjunction of the first n names, and is followed for its first MaxRows *)
(* rows.                                                                   *)
(***************************************************************************)

Letters ==
    <<"A", "B", "C", "D", "E", "F", "G", "H", "I", "J", "K", "L", "M",
      "N", "O", "P", "Q", "R", "S", "T", "U", "V", "W", "X", "Y", "Z">>
Digits == <<"0", "1", "2", "3", "4", "5", "6", "7", "8", "9">>

\* The k-th name, a letter and two digits: A00, A01, ..., in ascending order.
WideName(k) ==
    <<Letters[((k - 1) \div 100) + 1],
      Digits[(((k - 1) \div 10) % 10) + 1],
      Digits[((k - 1) % 10) + 1]>>

\* A formula as the handler has it at the loop: the input, its tokens, its AST
\* and its text in the header.
Formula(text, tokenArray, node, shown) ==
    [text |-> text, tokens |-> tokenArray, ast |-> node, shown |-> shown]

\* The formula as an operand of &: in parentheses unless it is a name.
InParentheses(f) ==
    IF f.ast.type = "var" THEN f
    ELSE Formula(<<"(">> \o f.text \o <<")">>,
                 <<Token("paren", <<"(">>)>> \o f.tokens \o <<Token("paren", <<")">>)>>,
                 f.ast,
                 <<"(">> \o f.shown \o <<")">>)

\* The conjunction of the names from the first to the last, halved again and
\* again: (A00&A01)&(A02&A03) for four names.
RECURSIVE WideFormula(_, _)
WideFormula(first, last) ==
    IF first = last
    THEN Formula(WideName(first), <<Token("variable", WideName(first))>>,
                 VarNode(WideName(first)), WideName(first))
    ELSE LET middle == (first + last) \div 2
             left == InParentheses(WideFormula(first, middle))
             right == InParentheses(WideFormula(middle + 1, last))
         IN  Formula(left.text \o <<"&">> \o right.text,
                     left.tokens \o <<Token("operator", <<"&">>)>> \o right.tokens,
                     BinaryNode("and", left.ast, right.ast),
                     left.shown \o symbols.and \o right.shown)

WideNames(n) == [k \in 1..n |-> WideName(k)]

\* The counts of variables the loop is entered with.
LoopCounts == {1, 2, 3, 4, 31, 32, 33, 34, 53, 54, 55}

\* The handler at `for (let i = numRows - 1; ...`, on the conjunction of n names.
LoopInit ==
    \E n \in LoopCounts :
        /\ expr = WideFormula(1, n).text
        /\ tokens = WideFormula(1, n).tokens
        /\ ast = WideFormula(1, n).ast
        /\ variables = WideNames(n)
        /\ thead = Append(WideNames(n), WideFormula(1, n).shown)
        /\ numRows = powerOfTwo(n)
        /\ i = minusOne(powerOfTwo(n))
        /\ locals = NoLocals
        /\ pc = "loop"
        /\ result = EmptyHTML
        /\ call = NoCall
        /\ returned = Return(<<>>)
        /\ selectionStart = Len(expr)
        /\ selectionEnd = Len(expr)

LoopNext == Row \/ Render

LoopSpec == LoopInit /\ [][LoopNext]_vars

\* The states LoopInit starts in are the ones Tokenize and Parse lead to.
LoopEntered(n) ==
    LET f == WideFormula(1, n)
        tokenized == tokenize(f.text)
        parsed == parseExpression(tokenized.value)
    IN  /\ ~tokenized.threw /\ tokenized.value = f.tokens
        /\ ~parsed.threw /\ parsed.value = f.ast
        /\ getVariables(f.ast) = WideNames(n)
        /\ tableHead(WideNames(n), f.text) = Append(WideNames(n), f.shown)

(***************************************************************************)
(* evaluateAST and getVariables called on their own, by any caller: on any *)
(* AST, and for evaluateAST with any assignment, one that leaves variables *)
(* of the AST out included.                                                *)
(***************************************************************************)

\* ASTs of up to two operators over the names A, B, C.
EvalFormulas ==
    Formulas1 \cup {NotNode(f) : f \in Formulas1}
              \cup {BinaryNode(t, l, r) : t \in BinaryTypes, l \in Formulas1, r \in Formulas0}
              \cup {BinaryNode(t, l, r) : t \in BinaryTypes, l \in Formulas0, r \in Formulas1}

\* Every assignment of true and false to some of the names.
EvalAssignments == UNION {[S -> {JSTrue, JSFalse}] : S \in SUBSET VarNames}

\* Names that differ in a digit, an upper case letter, the underscore or a
\* lower case letter, and names that are prefixes of others.
CollectNames ==
    {<<"A">>, <<"A", "1">>, <<"A", "B">>, <<"A", "_">>, <<"A", "a">>, <<"Z">>, <<"a">>}

CollectFormulas0 == {VarNode(v) : v \in CollectNames}
CollectFormulas1 ==
    CollectFormulas0
        \cup {NotNode(f) : f \in CollectFormulas0}
        \cup {BinaryNode(t, l, r) : t \in BinaryTypes, l \in CollectFormulas0,
                                    r \in CollectFormulas0}
CollectFormulas ==
    CollectFormulas1
        \cup {BinaryNode(t, l, r) : t \in {"and", "implies"}, l \in CollectFormulas1,
                                    r \in CollectFormulas0}
        \cup {BinaryNode(t, l, r) : t \in {"or", "equiv"}, l \in CollectFormulas0,
                                    r \in CollectFormulas1}

\* Names that an object literal inherits a property for, alone and beside B,
\* with assignments that bind them and that leave them out.
InheritedNames == {<<"c", "o", "n", "s", "t", "r", "u", "c", "t", "o", "r">>, <<"t", "o", "S", "t", "r", "i", "n", "g">>}

InheritedFormulas ==
    {VarNode(n) : n \in InheritedNames}
        \cup {NotNode(VarNode(n)) : n \in InheritedNames}
        \cup {BinaryNode(t, VarNode(n), VarNode(m)) :
                 t \in BinaryTypes, n \in InheritedNames,
                 m \in InheritedNames \cup {<<"B">>}}

InheritedAssignments ==
    UNION {[S -> {JSTrue, JSFalse}] : S \in SUBSET (InheritedNames \cup {<<"B">>})}

\* A node of a type the switches have no case for, alone and as an operand
\* that the evaluation reaches or passes by.  evaluateAST throws on it;
\* traverse returns from it without looking below it.
UnknownNode == [type |-> "xor", left |-> VarNode(<<"A">>), right |-> VarNode(<<"B">>)]

UnknownFormulas ==
    {UnknownNode, NotNode(UnknownNode)}
        \cup {BinaryNode(t, VarNode(<<"A">>), UnknownNode) : t \in BinaryTypes}
        \cup {BinaryNode(t, UnknownNode, VarNode(<<"A">>)) : t \in BinaryTypes}

Calls ==
    {Call("evaluateAST", f, a) : f \in EvalFormulas, a \in EvalAssignments}
        \cup {Call("evaluateAST", f, a) : f \in InheritedFormulas,
                                          a \in InheritedAssignments}
        \cup {Call("evaluateAST", f, a) : f \in UnknownFormulas, a \in EvalAssignments}
        \cup {Call("getVariables", f, <<>>) : f \in CollectFormulas}
        \cup {Call("getVariables", f, <<>>) : f \in UnknownFormulas}

CallInit ==
    /\ call \in Calls
    /\ returned = Return(<<>>)
    /\ pc = "called"
    /\ expr = <<>>
    /\ selectionStart = Len(expr)
    /\ selectionEnd = Len(expr)
    /\ result = EmptyHTML
    /\ tokens = <<>>
    /\ ast = <<>>
    /\ variables = <<>>
    /\ numRows = Zero
    /\ i = Zero
    /\ thead = <<>>
    /\ locals = NoLocals

\* evaluateAST(ast, vars) runs to its return; it assigns to neither argument.
CallEvaluateAST ==
    /\ pc = "called"
    /\ call.fn = "evaluateAST"
    /\ returned' = evaluateAST(call.ast, call.assignment)
    /\ pc' = "returned"
    /\ UNCHANGED <<call, expr, result, tokens, ast, variables, numRows, i, thead, locals>>
    /\ UNCHANGED <<selectionStart, selectionEnd>>

\* getVariables(ast) runs to its return; it assigns to nothing of the AST.
CallGetVariables ==
    /\ pc = "called"
    /\ call.fn = "getVariables"
    /\ returned' = Return(getVariables(call.ast))
    /\ pc' = "returned"
    /\ UNCHANGED <<call, expr, result, tokens, ast, variables, numRows, i, thead, locals>>
    /\ UNCHANGED <<selectionStart, selectionEnd>>

CallNext == CallEvaluateAST \/ CallGetVariables

CallSpec == CallInit /\ [][CallNext]_vars

(***************************************************************************)
(* Reading a rendered normal form back: its clauses, their literals, and   *)
(* the value of each under an assignment of booleans to the variables.     *)
(***************************************************************************)

\* The pieces of text between the occurrences of separator.
RECURSIVE SplitLoop(_, _, _, _)
SplitLoop(text, separator, k, piece) ==
    IF k > Len(text) THEN <<piece>>
    ELSE IF /\ k + Len(separator) - 1 <= Len(text)
            /\ SubSeq(text, k, k + Len(separator) - 1) = separator
         THEN <<piece>> \o SplitLoop(text, separator, k + Len(separator), <<>>)
         ELSE SplitLoop(text, separator, k + 1, Append(piece, text[k]))
SplitOn(text, separator) == SplitLoop(text, separator, 1, <<>>)

StripParens(clause) ==
    IF Len(clause) >= 2 /\ clause[1] = "(" /\ clause[Len(clause)] = ")"
    THEN SubSeq(clause, 2, Len(clause) - 1)
    ELSE clause

LiteralHolds(literal, a) ==
    IF Head(literal) = NotSign THEN ~a[Tail(literal)] ELSE a[literal]

MintermHolds(clause, a) ==
    LET literals == SplitOn(StripParens(clause), symbols.and)
    IN  \A k \in 1..Len(literals) : LiteralHolds(literals[k], a)

MaxtermHolds(clause, a) ==
    LET literals == SplitOn(StripParens(clause), symbols.or)
    IN  \E k \in 1..Len(literals) : LiteralHolds(literals[k], a)

Names == {variables[k] : k \in 1..Len(variables)}
Assignments == [Names -> BOOLEAN]
AstHolds(a) == ToBoolean(evaluateAST(ast, [v \in Names |-> JSBool(a[v])]).value)

Finished == pc = "done" /\ result.kind = "result"

\* The rendered DNF under a: the OR of its minterms, the sentinel being false.
DnfHolds(a) ==
    IF locals.dnfClauses = <<>> THEN FALSE
    ELSE LET minterms == SplitOn(result.dnf, symbols.or)
         IN  \E k \in 1..Len(minterms) : MintermHolds(minterms[k], a)

\* The rendered CNF under a: the AND of its maxterms, the sentinel being true.
CnfHolds(a) ==
    IF locals.cnfClauses = <<>> THEN TRUE
    ELSE LET maxterms == SplitOn(result.cnf, symbols.and)
         IN  \A k \in 1..Len(maxterms) : MaxtermHolds(maxterms[k], a)

\* C1: for every formula that parses and every assignment of booleans to its
\* variables, the derived DNF (the OR of its minterms, the sentinel False read
\* as false) has the value evaluateAST gives the AST under that assignment.
C1_DnfEquivalent ==
    Finished => \A a \in Assignments : DnfHolds(a) = AstHolds(a)

C1_Witness ==
    /\ Finished
    /\ Len(variables) = 3
    /\ Len(locals.dnfClauses) >= 2
    /\ Len(locals.cnfClauses) >= 2

\* The assignment a body row shows in its variable cells.
RowShows(row) == [v \in Names |->
                    row[CHOOSE k \in 1..Len(variables) : variables[k] = v] = "T"]
RowResult(row) == row[Len(row)]
FalseRows == SelectSeq(locals.tbody, LAMBDA row : RowResult(row) = "F")
TrueRows == SelectSeq(locals.tbody, LAMBDA row : RowResult(row) = "T")

\* C2: the derived CNF (the AND of its maxterms, the sentinel True read as
\* true) has the value evaluateAST gives the AST under every assignment, and
\* the k-th maxterm is false under the assignment of the k-th false row and true
\* under every other assignment.
C2_CnfEquivalent ==
    Finished =>
        /\ \A a \in Assignments : CnfHolds(a) = AstHolds(a)
        /\ Len(locals.cnfClauses) = Len(FalseRows)
        /\ \A k \in 1..Len(locals.cnfClauses) : \A a \in Assignments :
               MaxtermHolds(locals.cnfClauses[k], a) = (a # RowShows(FalseRows[k]))

C2_Witness ==
    /\ Finished
    /\ Len(variables) = 3
    /\ Len(locals.cnfClauses) >= 3
    /\ Len(locals.dnfClauses) >= 1

\* The integer a finite Number of the loop stands for.
RECURSIVE Magnitude(_)
Magnitude(bits) == IF bits = <<>> THEN 0 ELSE Head(bits) + 2 * Magnitude(Tail(bits))
NumberValue(x) == IF x.negative THEN 0 - Magnitude(x.bits) ELSE Magnitude(x.bits)

\* x >= k for a Number x and an integer k.
AtLeast(x, k) == x.infinite \/ NumberValue(x) >= k

\* The exact integer 2^n - k for k >= 0, in binary digits, whatever its size:
\* 2^n, counted down k times without any rounding.
Predecessor(x) ==
    IF x.negative THEN Integer(TRUE, increment(x.bits))
    ELSE IF x.bits = <<>> THEN Integer(TRUE, <<1>>)
    ELSE Integer(FALSE, decrement(x.bits))
RECURSIVE CountDown(_, _)
CountDown(x, k) == IF k = 0 THEN x ELSE CountDown(Predecessor(x), k - 1)
RowNumber(n, k) ==
    CountDown(Integer(FALSE, [d \in 1..(n + 1) |-> IF d = n + 1 THEN 1 ELSE 0]), k)

\* Bit b of a Number that is not negative.
BitOf(x, b) == IF b < Len(x.bits) THEN x.bits[b + 1] ELSE 0

\* The row shows, at each position j of the sorted variable list (counted
\* from 0), T exactly when bit n - j - 1 of the row's number is 1.
RowSpells(row, n, number) ==
    /\ Len(row) = n + 1
    /\ \A j \in 0..(n - 1) : (row[j + 1] = "T") = (BitOf(number, n - j - 1) = 1)

\* C3: for n distinct variables the enumerator produces exactly 2^n rows, one
\* for each i from 2^n - 1 down to 0 in that order (the k-th row is the row for
\* 2^n - k), the variable at position j being true in the row for i exactly
\* when bit n - j - 1 of i is 1, so that every assignment has exactly one row,
\* the first row is all true and the last all false.
C3_RowOrder ==
    LET n == Len(variables)
        rows == locals.tbody
    IN  /\ pc = "loop" =>
            /\ i = RowNumber(n, Len(rows) + 1)
            /\ \A k \in 1..Len(rows) : RowSpells(rows[k], n, RowNumber(n, k))
        /\ Finished =>
            /\ Len(result.tbody) = 2 ^ n
            /\ \A k \in 1..Len(result.tbody) :
                   RowSpells(result.tbody[k], n, RowNumber(n, k))
            /\ \A a \in Assignments :
                   Cardinality({k \in 1..Len(result.tbody) :
                                   RowShows(result.tbody[k]) = a}) = 1
            /\ \A j \in 1..n : result.tbody[1][j] = "T"
            /\ \A j \in 1..n : result.tbody[2 ^ n][j] = "F"

\* C4: after the loop the DNF has one clause per true row, the CNF one clause
\* per false row, and the two counts sum to 2^n.
C4_ClauseCounts ==
    (pc = "loop" /\ NumberValue(i) < 0) \/ Finished =>
        /\ Len(locals.dnfClauses) = Len(TrueRows)
        /\ Len(locals.cnfClauses) = Len(FalseRows)
        /\ Len(locals.dnfClauses) + Len(locals.cnfClauses) = 2 ^ Len(variables)

C4_Witness ==
    /\ pc = "loop" /\ NumberValue(i) < 0
    /\ Len(variables) = 2
    /\ Len(locals.dnfClauses) = 3
    /\ Len(locals.cnfClauses) = 1

AllRowsTrue == FalseRows = <<>>
AllRowsFalse == TrueRows = <<>>
Distinct(seq) == \A k, l \in 1..Len(seq) : seq[k] = seq[l] => k = l

\* The normal form is the sentinel: it has no clause and reads True (False).
CnfIsSentinel == locals.cnfClauses = <<>> /\ result.cnf = TrueText
DnfIsSentinel == locals.dnfClauses = <<>> /\ result.dnf = FalseText

\* C5: if every row is true the DNF lists all 2^n minterms and the CNF is the
\* sentinel True; if every row is false the CNF lists all 2^n maxterms and the
\* DNF is the sentinel False; a sentinel is produced in no other case (the only
\* other text reading like one is the lone clause of a formula whose single
\* variable bears that name).
C5_Sentinels ==
    Finished =>
        /\ AllRowsTrue =>
              /\ Len(locals.dnfClauses) = 2 ^ Len(variables)
              /\ Distinct(locals.dnfClauses)
              /\ SplitOn(result.dnf, symbols.or) = locals.dnfClauses
        /\ AllRowsFalse =>
              /\ Len(locals.cnfClauses) = 2 ^ Len(variables)
              /\ Distinct(locals.cnfClauses)
              /\ SplitOn(result.cnf, symbols.and) = locals.cnfClauses
        /\ CnfIsSentinel = AllRowsTrue
        /\ DnfIsSentinel = AllRowsFalse
        /\ result.cnf = TrueText => CnfIsSentinel \/ variables = <<TrueText>>
        /\ result.dnf = FalseText => DnfIsSentinel \/ variables = <<FalseText>>

C5_Witness ==
    /\ Finished
    /\ Len(variables) = 2
    /\ AllRowsTrue
    /\ CnfIsSentinel

C5_WitnessContradiction ==
    /\ Finished
    /\ Len(variables) = 3
    /\ AllRowsFalse
    /\ DnfIsSentinel

\* A clause that reads like the sentinel and is none.
C5_WitnessNamedTrue ==
    /\ Finished
    /\ result.cnf = TrueText
    /\ ~CnfIsSentinel

(***************************************************************************)
(* Synonyms and the round trip.                                            *)
(***************************************************************************)

\* The input with every synonym of ~, & and | replaced by the canonical sign.
Canonical(text) ==
    [k \in 1..Len(text) |->
        CASE text[k] \in {"!", NotSign} -> "~"
          [] text[k] = Wedge -> "&"
          [] text[k] = Vee -> "|"
          [] OTHER -> text[k]]

\* The variable columns of a header row.
Columns(head) == SubSeq(head, 1, Len(head) - 1)

\* C6: an input that writes negation as ! or the not sign, conjunction as the
\* wedge or disjunction as the vee is accepted and produces the AST, truth
\* table, DNF and CNF of the same input written with ~, & and |.
C6_SynonymsAccepted ==
    pc = "done" =>
        LET canon == generateTableAndNF(Canonical(expr))
        IN  canon.kind = "result" =>
               /\ result.kind = "result"
               /\ Return(ast) = parseExpression(tokenize(Canonical(expr)).value)
               /\ Columns(result.thead) = Columns(canon.thead)
               /\ result.tbody = canon.tbody
               /\ result.dnf = canon.dnf
               /\ result.cnf = canon.cnf

\* C7: the rendered DNF and the rendered CNF of a formula that parses, fed back
\* through the pipeline, are accepted and reproduce the formula's truth table.
C7_RoundTrip ==
    Finished =>
        LET again == generateTableAndNF(result.dnf)
            againCnf == generateTableAndNF(result.cnf)
        IN  /\ again.kind = "result"
            /\ Columns(again.thead) = Columns(result.thead)
            /\ again.tbody = result.tbody
            /\ againCnf.kind = "result"
            /\ Columns(againCnf.thead) = Columns(result.thead)
            /\ againCnf.tbody = result.tbody

(***************************************************************************)
(* The shape of the AST.                                                   *)
(***************************************************************************)

\* The documented precedence, 1 the tightest.
PrecedenceLevel(type) ==
    CASE type = "and" -> 2
      [] type = "or" -> 3
      [] type = "implies" -> 4
      [] type = "equiv" -> 5

VarA == VarNode(<<"A">>)
VarB == VarNode(<<"B">>)
VarC == VarNode(<<"C">>)

\* The run has parsed expr into the tree expected, and a finished run has not
\* ended in an error.
ParsesTo(expected) ==
    /\ pc = "done" => result.kind = "result"
    /\ pc \in {"loop", "done"} => ast = expected

\* C8: without parentheses, of two binary operators of different levels in
\* x op1 y op2 z the tighter one is the deeper node whichever comes first
\* (negation, conjunction, disjunction, implication, biconditional, tightest
\* first), and a prefix ~ takes only the primary after it.
C8_Precedence ==
    /\ \A t1, t2 \in BinaryTypes :
          PrecedenceLevel(t1) # PrecedenceLevel(t2) /\ expr = PrecText(t1, t2) =>
              ParsesTo(IF PrecedenceLevel(t1) < PrecedenceLevel(t2)
                       THEN BinaryNode(t2, BinaryNode(t1, VarA, VarB), VarC)
                       ELSE BinaryNode(t1, VarA, BinaryNode(t2, VarB, VarC)))
    /\ \A t \in BinaryTypes :
          expr = NotText(t) => ParsesTo(BinaryNode(t, NotNode(VarA), VarB))

C8_Witness ==
    /\ Finished
    /\ expr = PrecText("implies", "and")
    /\ ast.type = "implies" /\ ast.right.type = "and"

RECURSIVE LeftNested(_, _)
LeftNested(t, k) ==
    IF k = 1 THEN VarNode(ChainName(1))
    ELSE BinaryNode(t, LeftNested(t, k - 1), VarNode(ChainName(k)))

RECURSIVE NotNested(_)
NotNested(k) == IF k = 0 THEN VarA ELSE NotNode(NotNested(k - 1))

\* C9: a chain x1 op x2 op ... op xk of one binary operator, implication and
\* biconditional included, parses to the left-nested tree, and a run of ~
\* nests to the right.
C9_LeftAssociative ==
    /\ \A t \in BinaryTypes : \A k \in 2..MaxChain :
          expr = ChainText(t, k) => ParsesTo(LeftNested(t, k))
    /\ \A k \in 1..MaxChain :
          expr = NotChainText(k) => ParsesTo(NotNested(k))

C9_Witness ==
    /\ Finished
    /\ expr = ChainText("implies", MaxChain)
    /\ ast.type = "implies" /\ ast.left.type = "implies" /\ ast.right.type = "var"

\* C10: a parenthesized sub-expression is parsed from the biconditional level
\* and is one operand of the operator around it, and the parentheses leave no
\* node: an input in parentheses has the AST of the input without them.
C10_Parentheses ==
    /\ \A t1, t2 \in BinaryTypes :
          /\ expr = LeftParenText(t1, t2) =>
                ParsesTo(BinaryNode(t2, BinaryNode(t1, VarA, VarB), VarC))
          /\ expr = RightParenText(t1, t2) =>
                ParsesTo(BinaryNode(t1, VarA, BinaryNode(t2, VarB, VarC)))
    /\ expr \in {<<"(", "A", ")">>, <<"(", "(", "A", ")", ")">>} => ParsesTo(VarA)
    /\ pc = "loop" =>
          parseExpression(tokenize(<<"(">> \o expr \o <<")">>).value) = Return(ast)

C10_Witness ==
    /\ Finished
    /\ expr = LeftParenText("equiv", "and")
    /\ ast.type = "and" /\ ast.left.type = "equiv"

(***************************************************************************)
(* The grammar, as a recognizer of token sequences.                        *)
(***************************************************************************)

IsOperator(token, value) == token.type = "operator" /\ token.value = value
IsParen(token, value) == token.type = "paren" /\ token.value = value

GrammarOperator(nonterminal) ==
    CASE nonterminal = "equiv" -> DoubleArrow
      [] nonterminal = "implies" -> Arrow
      [] nonterminal = "or" -> <<"|">>
      [] nonterminal = "and" -> <<"&">>

GrammarOperand(nonterminal) ==
    CASE nonterminal = "equiv" -> "implies"
      [] nonterminal = "implies" -> "or"
      [] nonterminal = "or" -> "and"
      [] nonterminal = "and" -> "not"

\* s is a sentence of the nonterminal:
\*   equiv := implies ("<->" implies)*     implies := or ("->" or)*
\*   or := and ("|" and)*                  and := not ("&" not)*
\*   not := "~" not | primary              primary := variable | "(" equiv ")"
\* A repetition x (op x)* is read as: an x, or a shorter repetition, op, an x.
RECURSIVE Derives(_, _)
Derives(nonterminal, s) ==
    CASE nonterminal \in {"equiv", "implies", "or", "and"} ->
            \/ Derives(GrammarOperand(nonterminal), s)
            \/ \E k \in 2..(Len(s) - 1) :
                  /\ IsOperator(s[k], GrammarOperator(nonterminal))
                  /\ Derives(GrammarOperand(nonterminal), SubSeq(s, k + 1, Len(s)))
                  /\ Derives(nonterminal, SubSeq(s, 1, k - 1))
      [] nonterminal = "not" ->
            \/ Len(s) >= 2 /\ IsOperator(s[1], <<"~">>) /\ Derives("not", Tail(s))
            \/ Derives("primary", s)
      [] nonterminal = "primary" ->
            \/ Len(s) = 1 /\ s[1].type = "variable"
            \/ /\ Len(s) >= 3
               /\ IsParen(s[1], <<"(">>)
               /\ IsParen(s[Len(s)], <<")">>)
               /\ Derives("equiv", SubSeq(s, 2, Len(s) - 1))

Sentence(s) == Derives("equiv", s)

ParseErrors == {"Unexpected token: ", "Unexpected end of input", "Expected ')'"}

\* The run on this input has ended in this error, with no AST.
EndsInError(input, message) ==
    pc = "done" /\ expr = input =>
        result = errorHTML(message) /\ ast = <<>>

\* C11: parseExpression returns an AST if and only if the whole token sequence
\* is a sentence of the grammar; otherwise it fails with a parse error and no
\* AST: tokens left over (A B, A )), the input ending where an operand is
\* required (A &, the empty input), a missing closing parenthesis ((A), a token
\* where an operand is required (& A, ()).
C11_GrammarAccepted ==
    /\ pc = "loop" => Sentence(tokens) /\ Return(ast) = parseExpression(tokens)
    /\ pc = "done" /\ ~tokenize(expr).threw =>
          /\ (result.kind = "result") = Sentence(tokens)
          /\ result.kind # "result" =>
                /\ result.kind = "error"
                /\ result.message[1] \in ParseErrors
                /\ ast = <<>>
    /\ EndsInError(<<"A", " ", "B">>, <<"Unexpected token: ", "B">>)
    /\ EndsInError(<<"A", ")">>, <<"Unexpected token: ", ")">>)
    /\ EndsInError(<<"A", "&">>, <<"Unexpected end of input">>)
    /\ EndsInError(<<>>, <<"Unexpected end of input">>)
    /\ EndsInError(<<"(", "A">>, <<"Expected ')'">>)
    /\ EndsInError(<<"&", "A">>, <<"Unexpected token: ", "&">>)
    /\ EndsInError(<<"(", ")">>, <<"Unexpected token: ", ")">>)

C11_Witness ==
    /\ pc = "done"
    /\ expr = <<"A", " ", "B">>
    /\ Len(tokens) = 2
    /\ result.kind = "error"

\* A sentence with parentheses and every level of the grammar is accepted.
C11_WitnessAccepted ==
    /\ pc = "done"
    /\ result.kind = "result"
    /\ Len(tokens) >= 8
    /\ \E k \in 1..Len(tokens) : IsParen(tokens[k], <<"(">>)

(***************************************************************************)
(* The lexemes, as a description of the input: which stretches of          *)
(* characters are one lexeme, and which positions the scan arrives at.     *)
(***************************************************************************)

NameChars == UpperCase \cup LowerCase \cup Digit \cup {"_"}
SingleCharLexemes == {"(", ")", "~", "!", NotSign, "&", Wedge, "|", Vee}
ImpliesForms == {<<"-", ">">>, <<"=", ">">>}
EquivForms == {<<"<", "-", ">">>, <<"<", "=", ">">>}

\* The characters of input at the 0-based positions from .. to - 1.
Stretch(input, from, to) == SubSeq(input, from + 1, to)

\* The characters from .. to - 1 are one lexeme (or one white space).
LexemeAt(input, from, to) ==
    LET text == Stretch(input, from, to)
    IN  \/ Len(text) = 1 /\ text[1] \in WhiteSpace \cup SingleCharLexemes
        \/ text \in ImpliesForms \cup EquivForms
        \/ /\ Len(text) >= 1
           /\ text[1] \in UpperCase \cup LowerCase
           /\ \A k \in 1..Len(text) : text[k] \in NameChars
           /\ to < Len(input) => input[to + 1] \notin NameChars

\* The characters before position p split into lexemes.
RECURSIVE Reaches(_, _)
Reaches(input, p) ==
    \/ p = 0
    \/ \E q \in 0..(p - 1) : LexemeAt(input, q, p) /\ Reaches(input, q)

\* A lexeme starts at position p.
StartsToken(input, p) == \E to \in (p + 1)..Len(input) : LexemeAt(input, p, to)

\* The positions the scan arrives at where no token starts.
BadPositions(input) ==
    {p \in 0..(Len(input) - 1) : Reaches(input, p) /\ ~StartsToken(input, p)}

Minimum(S) == CHOOSE p \in S : \A q \in S : p <= q

LexError(input, p) ==
    <<"Unknown token at position ", ToString(p), ": '", input[p + 1], "'">>

\* C12: tokenize fails if and only if scanning reaches a position whose
\* character starts no token; the error names that character and its 0-based
\* offset, the leftmost such position, and no tokens are returned.
C12_LexError ==
    pc \in {"tokenized", "done"} =>
        LET bad == BadPositions(expr)
        IN  /\ tokenize(expr).threw = (bad # {})
            /\ bad # {} =>
                  /\ pc = "done"
                  /\ result = errorHTML(LexError(expr, Minimum(bad)))
                  /\ tokens = <<>>
            /\ bad = {} =>
                  /\ Return(tokens) = tokenize(expr)
                  /\ Reaches(expr, Len(expr))

\* The scan passes two tokens and a blank and stops at a lone '-' in the fourth
\* position.
C12_Witness ==
    /\ pc = "done"
    /\ expr = <<"A", "1", " ", "-">>
    /\ result = errorHTML(LexError(expr, 3))

(***************************************************************************)
(* The evaluator and the collector, called on their own.                   *)
(***************************************************************************)

\* The names at the leaves of an AST.
RECURSIVE Leaves(_)
Leaves(node) ==
    CASE node.type = "var" -> {node.value}
      [] node.type = "not" -> Leaves(node.operand)
      [] node.type \in BinaryTypes -> Leaves(node.left) \cup Leaves(node.right)
      [] OTHER -> {}

\* Every node of the AST is of one of the six types.
RECURSIVE WellFormed(_)
WellFormed(node) ==
    CASE node.type = "var" -> TRUE
      [] node.type = "not" -> WellFormed(node.operand)
      [] node.type \in BinaryTypes -> WellFormed(node.left) /\ WellFormed(node.right)
      [] OTHER -> FALSE

Evaluated == pc = "returned" /\ call.fn = "evaluateAST" /\ WellFormed(call.ast)

\* The assignment leaves out a variable of the AST.
Unbound == Leaves(call.ast) \ DOMAIN call.assignment # {}

\* C13: evaluateAST, given an AST that references a variable absent from the
\* assignment, fails with an error instead of returning a value.
C13_UnboundVariableFails == Evaluated /\ Unbound => returned.threw

(***************************************************************************)
(* The number of variables.                                                *)
(***************************************************************************)

\* A bound on the number of variables, as a configuration would set it; the
\* handler itself reads none.
VariableBound == 2

TooManyVariables == Len(variables) > VariableBound

\* C14: when the number of distinct variables of the formula exceeds the
\* configured bound, the run is rejected with an error before the first row is
\* enumerated: it never enters the row loop, builds no row and no clause, and
\* ends in an error message.
C14_TooManyVariablesRejected ==
    TooManyVariables =>
        /\ pc # "loop"
        /\ locals = NoLocals
        /\ pc = "done" => result.kind = "error"

(***************************************************************************)
(* The collector.                                                          *)
(***************************************************************************)

\* getVariables has returned from a call on an AST: a tree whose nodes all are
\* of the six types.
Collected == pc = "returned" /\ call.fn = "getVariables" /\ WellFormed(call.ast)

\* a comes before b in the order of code units: a is a proper prefix of b, or
\* at the first position where they differ a has the smaller code unit.
Before(a, b) ==
    \E p \in 1..Len(b) :
        /\ p <= Len(a) + 1
        /\ \A k \in 1..(p - 1) : a[k] = b[k]
        /\ p <= Len(a) => codeUnit(a[p]) < codeUnit(b[p])

\* The AST with the operands of every binary node exchanged.
RECURSIVE Mirror(_)
Mirror(node) ==
    CASE node.type = "var" -> node
      [] node.type = "not" -> NotNode(Mirror(node.operand))
      [] node.type \in BinaryTypes ->
            BinaryNode(node.type, Mirror(node.right), Mirror(node.left))
      [] OTHER -> node

CollectedRight ==
    Collected =>
        LET names == returned.value
        IN  /\ ~returned.threw
            /\ {names[k] : k \in 1..Len(names)} = Leaves(call.ast)
            /\ Len(names) = Cardinality(Leaves(call.ast))
            /\ \A k \in 1..Len(names) : \A l \in (k + 1)..Len(names) :
                   Before(names[k], names[l])
            /\ getVariables(Mirror(call.ast)) = names

\* C15: getVariables, called on an AST (every node of one of the six types),
\* returns exactly the names at the leaves of the AST, each once, in ascending
\* order of code units; the result does not depend on the order in which the
\* leaves are met; and the call leaves its argument as it was, whatever tree
\* it is called on.
C15_Collector == []CollectedRight /\ [][call.fn = "getVariables" => call' = call]_vars

\* The leaves are met in the order a, A_, a, and come back as A_, a.
C15_Witness ==
    /\ Collected
    /\ call.ast = BinaryNode("and",
                             BinaryNode("and", VarNode(<<"a">>), VarNode(<<"A", "_">>)),
                             VarNode(<<"a">>))
    /\ returned.value = <<<<"A", "_">>, <<"a">>>>

\* A prefix, a digit, an upper case letter: Z & A1 | A comes back as A, A1, Z.
C15_WitnessPrefix ==
    /\ Collected
    /\ traverse(call.ast, <<>>) = <<<<"Z">>, <<"A", "1">>, <<"A">>>>
    /\ returned.value = <<<<"A">>, <<"A", "1">>, <<"Z">>>>

(***************************************************************************)
(* The evaluator.                                                          *)
(***************************************************************************)

\* The truth value of a formula under an assignment of all its variables.
RECURSIVE Truth(_, _)
Truth(node, assignment) ==
    CASE node.type = "var" -> assignment[node.value] = JSTrue
      [] node.type = "not" -> ~Truth(node.operand, assignment)
      [] node.type = "and" -> Truth(node.left, assignment) /\ Truth(node.right, assignment)
      [] node.type = "or" -> Truth(node.left, assignment) \/ Truth(node.right, assignment)
      [] node.type = "implies" ->
            ~Truth(node.left, assignment) \/ Truth(node.right, assignment)
      [] node.type = "equiv" ->
            Truth(node.left, assignment) = Truth(node.right, assignment)

EvaluatedRight ==
    Evaluated /\ ~Unbound =>
        /\ ~returned.threw
        /\ returned.value = (IF Truth(call.ast, call.assignment) THEN JSTrue ELSE JSFalse)

\* C16: for an AST and an assignment of all its variables, evaluateAST returns
\* the truth-functional value: a variable's assigned value, the negation for
\* Not, conjunction for And, disjunction for Or, not-left-or-right for Implies,
\* equality of the two sides for Equiv; the call leaves the assignment and the
\* AST as they were.
C16_Evaluator == []EvaluatedRight /\ [][call.fn = "evaluateAST" => call' = call]_vars

\* A true antecedent and a false consequent: (A & B) -> C returns false.
C16_Witness ==
    /\ Evaluated
    /\ call.ast = BinaryNode("implies",
                             BinaryNode("and", VarNode(<<"A">>), VarNode(<<"B">>)),
                             VarNode(<<"C">>))
    /\ call.assignment = [v \in VarNames |-> IF v = <<"C">> THEN JSFalse ELSE JSTrue]
    /\ returned.value = JSFalse

\* Both sides false: A <-> B returns true.
C16_WitnessEquiv ==
    /\ Evaluated
    /\ call.ast = BinaryNode("equiv", VarNode(<<"A">>), VarNode(<<"B">>))
    /\ call.assignment = [v \in {<<"A">>, <<"B">>} |-> JSFalse]
    /\ returned.value = JSTrue

(***************************************************************************)
(* The result element over several runs.                                   *)
(***************************************************************************)

\* The values the field can have: the page's inputs, and what the "(" key
\* makes of them.
RECURSIVE FieldValuesAfter(_)
FieldValuesAfter(keys) ==
    IF keys = 0 THEN PageInputs
    ELSE LET before == FieldValuesAfter(keys - 1)
         IN  before \cup
             {autoClose(value, start, end) :
                 <<value, start, end>> \in
                     {<<v, a, b>> \in before \X (0..MaxFieldLen) \X (0..MaxFieldLen) :
                         /\ Len(v) + 2 <= MaxFieldLen
                         /\ a <= b
                         /\ b <= Len(v)}}
FieldValues == FieldValuesAfter(MaxFieldLen \div 2)

\* What the runs on the field's values leave, each taken on its own.
Outcomes == {generateTableAndNF(input) : input \in FieldValues}

\* A complete result: the header, all 2^n rows of n + 1 cells, both normal
\* forms, and no error message.
CompleteResult(r) ==
    LET n == Len(r.thead) - 1
    IN  /\ r.kind = "result"
        /\ n >= 0
        /\ Len(r.tbody) = 2 ^ n
        /\ \A k \in 1..Len(r.tbody) : Len(r.tbody[k]) = n + 1
        /\ r.dnf # <<>>
        /\ r.cnf # <<>>
        /\ r.message = <<>>

\* An error message alone.
ErrorAlone(r) ==
    /\ r.kind = "error"
    /\ r.message # <<>>
    /\ r.thead = <<>> /\ r.tbody = <<>> /\ r.dnf = <<>> /\ r.cnf = <<>>

\* C17: every run of generateTableAndNF ends with the complete result (header,
\* all 2^n rows, DNF and CNF) or with an error message alone, never with a
\* partial table or normal form; while a run is under way the result element
\* still holds what the run before left; and after any sequence of runs it
\* holds what the last run's input gives on its own, nothing of earlier runs.
C17_CompleteOrError ==
    /\ result = EmptyHTML \/ CompleteResult(result) \/ ErrorAlone(result)
    /\ result = EmptyHTML \/ result \in Outcomes
    /\ pc = "done" =>
          /\ result = generateTableAndNF(expr)
          /\ CompleteResult(result) # ErrorAlone(result)
          /\ CompleteResult(result) =>
                /\ Len(result.thead) = Len(variables) + 1
                /\ Len(result.tbody) = NumberValue(numRows)

\* A second run, on A & B, is under way with one row built, and the result
\* element still holds the error message of the run before, on (A.
C17_Witness ==
    /\ pc = "loop"
    /\ NumberValue(i) = 2
    /\ Len(locals.tbody) = 1
    /\ expr = <<"A", " ", "&", " ", "B">>
    /\ result = errorHTML(<<"Expected ')'">>)

\* A run on (A), which the "(" key made of the selected A, is under way with
\* one row built, and the result element still holds the error message of the
\* run before, on (A.
C17_WitnessAutoClose ==
    /\ pc = "loop"
    /\ NumberValue(i) = 0
    /\ Len(locals.tbody) = 1
    /\ expr = <<"(", "A", ")">>
    /\ selectionStart = 1
    /\ selectionEnd = 2
    /\ result = errorHTML(<<"Expected ')'">>)

\* A run has ended in an error message alone.
C17_WitnessError ==
    /\ pc = "done"
    /\ expr = <<"A", " ", "&">>
    /\ tokens # <<>>
    /\ ErrorAlone(result)

(***************************************************************************)
(* The operators of more than one character.                               *)
(***************************************************************************)

\* The positions where the lexemes other than white space start.
TokenStarts(input) ==
    {p \in 0..(Len(input) - 1) : Reaches(input, p) /\ input[p + 1] \notin WhiteSpace}

\* The place in the token array of the lexeme that starts at position p.
TokenIndex(starts, p) == Cardinality({q \in starts : q < p}) + 1

ImpliesToken == Token("operator", <<"-", ">">>)
EquivToken == Token("operator", <<"<", "-", ">">>)

\* The token starts where a form of the implication, of the biconditional begins.
ImpliesStarts(input, starts) == {p \in starts : slice(input, p, p + 2) \in ImpliesForms}
EquivStarts(input, starts) == {p \in starts : slice(input, p, p + 3) \in EquivForms}

\* A '<', '-' or '=' where a token has to start and none of the forms does.
StrayStarts(input, starts) ==
    {p \in starts \ (ImpliesStarts(input, starts) \cup EquivStarts(input, starts)) :
        input[p + 1] \in {"<", "-", "="}}

\* C18: -> and => each give one implication token and the scan goes on two
\* characters further; <-> and <=> each give one biconditional token and the
\* scan goes on three characters further; the -> or => inside a biconditional
\* is never a token of its own; a '<', '-' or '=' that does not begin one of
\* these forms is a lex error at that position and gives no token.
C18_ArrowsWhole ==
    pc \in {"tokenized", "done"} =>
        LET starts == TokenStarts(expr)
            implies == ImpliesStarts(expr, starts)
            equiv == EquivStarts(expr, starts)
            stray == StrayStarts(expr, starts)
        IN  /\ pc = "tokenized" =>
                  /\ Len(tokens) = Cardinality(starts)
                  /\ \A p \in implies :
                        /\ tokens[TokenIndex(starts, p)] = ImpliesToken
                        /\ p + 1 \notin starts
                        /\ Reaches(expr, p + 2)
                  /\ \A p \in equiv :
                        /\ tokens[TokenIndex(starts, p)] = EquivToken
                        /\ p + 1 \notin starts /\ p + 2 \notin starts
                        /\ Reaches(expr, p + 3)
                  /\ Cardinality({k \in 1..Len(tokens) : tokens[k] = ImpliesToken})
                        = Cardinality(implies)
                  /\ Cardinality({k \in 1..Len(tokens) : tokens[k] = EquivToken})
                        = Cardinality(equiv)
                  /\ stray = {}
            /\ \A p \in stray :
                  /\ pc = "done"
                  /\ tokens = <<>>
                  /\ result = errorHTML(LexError(expr, p))

\* A<=> gives the variable and one biconditional token.
C18_Witness ==
    /\ pc = "tokenized"
    /\ expr = <<"A", "<", "=", ">">>
    /\ tokens = <<Token("variable", <<"A">>), EquivToken>>

\* =>-> gives two implication tokens.
C18_WitnessImplies ==
    /\ pc = "tokenized"
    /\ expr = <<"=", ">", "-", ">">>
    /\ tokens = <<ImpliesToken, ImpliesToken>>

\* In A<-A the '<' begins no form: a lex error at position 1.
C18_WitnessStray ==
    /\ pc = "done"
    /\ expr = <<"A", "<", "-", "A">>
    /\ result = errorHTML(LexError(expr, 1))

(***************************************************************************)
(* The shape of a clause.                                                  *)
(***************************************************************************)

HasParens(clause) == \E k \in 1..Len(clause) : clause[k] \in {"(", ")"}

Wrapped(clause) ==
    /\ Len(clause) >= 2
    /\ clause[1] = "(" /\ clause[Len(clause)] = ")"
    /\ ~HasParens(SubSeq(clause, 2, Len(clause) - 1))

\* The clause is the one of this row: one literal per variable, in the order of
\* the variable list, negated where the row's cell is the given one; bare if
\* that is one literal, in parentheses if more.
ClauseOfRow(clause, row, separator, negated) ==
    LET literals == SplitOn(StripParens(clause), separator)
    IN  /\ Len(literals) = Len(variables)
        /\ \A k \in 1..Len(variables) :
              literals[k] = IF row[k] = negated THEN <<NotSign>> \o variables[k]
                            ELSE variables[k]
        /\ Len(literals) = 1 => ~HasParens(clause)
        /\ Len(literals) >= 2 => Wrapped(clause)

\* C19: a clause stands without parentheses exactly when it has one literal
\* (the formula has one variable) and in parentheses exactly when it has two or
\* more, also when it is the only clause of its normal form; its literals
\* follow the sorted variable list, and the clauses follow the rows of the
\* table: the k-th DNF clause is that of the k-th true row, the k-th CNF clause
\* that of the k-th false row.
C19_ClauseShape ==
    pc \in {"loop", "done"} =>
        /\ Len(locals.dnfClauses) = Len(TrueRows)
        /\ Len(locals.cnfClauses) = Len(FalseRows)
        /\ \A k \in 1..Len(TrueRows) :
              ClauseOfRow(locals.dnfClauses[k], TrueRows[k], symbols.and, "F")
        /\ \A k \in 1..Len(FalseRows) :
              ClauseOfRow(locals.cnfClauses[k], FalseRows[k], symbols.or, "T")
        /\ Finished =>
              /\ locals.dnfClauses # <<>> =>
                    SplitOn(result.dnf, symbols.or) = locals.dnfClauses
              /\ locals.cnfClauses # <<>> =>
                    SplitOn(result.cnf, symbols.and) = locals.cnfClauses
              /\ Len(locals.dnfClauses) = 1 =>
                    Wrapped(result.dnf) = (Len(variables) >= 2)
              /\ Len(locals.cnfClauses) = 1 =>
                    Wrapped(result.cnf) = (Len(variables) >= 2)

\* A & B: the DNF is its only clause, in parentheses.
C19_Witness ==
    /\ Finished
    /\ expr = <<"A", "&", "B">>
    /\ result.dnf = <<"(", "A", " ", Wedge, " ", "B", ")">>
    /\ Len(locals.cnfClauses) = 3

\* ~A: one variable, the clauses are bare literals.
C19_WitnessBare ==
    /\ Finished
    /\ expr = <<"~", "A">>
    /\ result.dnf = <<NotSign, "A">>
    /\ result.cnf = <<NotSign, "A">>

(***************************************************************************)
(* No formula without a variable.                                          *)
(***************************************************************************)

\* C20: every token sequence that parses gives an AST with at least one
\* variable leaf, so there is at least one variable and the table has at least
\* two rows; hence at least one of DNF and CNF is a list of clauses, and the
\* sentinels False (for DNF) and True (for CNF) never stand together in one
\* result.
C20_AtLeastOneVariable ==
    /\ pc \in {"loop", "done"} /\ ast # <<>> =>
          /\ Leaves(ast) # {}
          /\ Len(variables) = Cardinality(Leaves(ast))
          /\ Len(variables) >= 1
          /\ AtLeast(numRows, 2)
    /\ Finished =>
          /\ ast # <<>>
          /\ Len(result.tbody) = NumberValue(numRows)
          /\ locals.dnfClauses # <<>> \/ locals.cnfClauses # <<>>
          /\ ~(DnfIsSentinel /\ CnfIsSentinel)
          /\ ~(result.dnf = FalseText /\ result.cnf = TrueText)

\* A tautology of three variables: the CNF is the sentinel, the DNF has all
\* eight minterms.
C20_Witness ==
    /\ Finished
    /\ expr = <<"A", "|", "~", "A", "|", "B", "|", "C">>
    /\ CnfIsSentinel
    /\ Len(locals.dnfClauses) = 8

\* One variable: two rows, one clause in each normal form.
C20_WitnessOneVariable ==
    /\ Finished
    /\ expr = <<"(", "A", ")">>
    /\ Len(result.tbody) = 2
    /\ Len(locals.dnfClauses) = 1 /\ Len(locals.cnfClauses) = 1

(***************************************************************************)
(* The order of the stages.                                                *)
(***************************************************************************)

\* The steps a run takes from one stage to the next.
StageOrder ==
    {<<"idle", "tokenized">>, <<"idle", "done">>, <<"tokenized", "loop">>,
     <<"tokenized", "done">>, <<"loop", "loop">>, <<"loop", "done">>}

\* A step goes from a stage to the one after it.
StageStep == <<pc, pc'>> \in StageOrder

\* The input has a character no token starts with where the scan arrives, or a
\* '$', which no token contains.
HasUnknownCharacter ==
    BadPositions(expr) # {} \/ \E k \in 1..Len(expr) : expr[k] = "$"

\* What each stage finds done, and what it finds not yet begun.
StagesComplete ==
    /\ pc = "idle" => tokens = <<>> /\ ast = <<>> /\ locals = NoLocals
    /\ pc = "tokenized" =>
          /\ Return(tokens) = tokenize(expr)
          /\ ast = <<>>
          /\ locals = NoLocals
    /\ pc = "loop" =>
          /\ Return(tokens) = tokenize(expr)
          /\ Return(ast) = parseExpression(tokens)
          /\ Len(variables) <= 53 =>
                Len(locals.tbody) = NumberValue(numRows) - 1 - NumberValue(i)
    /\ locals # NoLocals => ast # <<>>
    /\ ast # <<>> => ~tokenize(expr).threw
    /\ pc = "done" /\ HasUnknownCharacter =>
          /\ result = errorHTML(LexError(expr, Minimum(BadPositions(expr))))
          /\ result.message[1] \notin ParseErrors
          /\ tokens = <<>>
          /\ ast = <<>>
    /\ EndsInError(<<"A", " ", "&", " ", "&", " ", "$">>,
                   <<"Unknown token at position ", "6", ": '", "$", "'">>)

\* C21: the stages run strictly in order, each to completion before the next
\* starts: the whole input is tokenized before any token is parsed, the whole
\* AST is built before any row is evaluated.  Hence an input with an
\* unrecognised character anywhere ends in the lex error, never in a parse
\* error, also when the tokens before that character would not parse
\* (A & & $ reports the $).
C21_StagesInOrder == []StagesComplete /\ [][StageStep]_vars

\* A & & $ has ended in the lex error for the $, and the tokens before the $
\* do not parse.
C21_Witness ==
    /\ pc = "done"
    /\ expr = <<"A", " ", "&", " ", "&", " ", "$">>
    /\ result = errorHTML(LexError(expr, 6))
    /\ parseExpression(tokenize(SubSeq(expr, 1, 6)).value).threw

\* The row loop under way: all tokens and the whole AST are there.
C21_WitnessLoop ==
    /\ pc = "loop"
    /\ expr = <<"A", "&", "B">>
    /\ Len(tokens) = 3
    /\ ast = BinaryNode("and", VarNode(<<"A">>), VarNode(<<"B">>))
    /\ Len(locals.tbody) = 2
====
